---- MODULE Spec2Model ----
(***************************************************************************)
(* Blackjack simulator: cards, shoe, hands, the round played by            *)
(* BlackjackGame.play, the Hi-Lo CardCounter, the three strategies and     *)
(* the BlackjackBot.play_games driver with its GameStats.                  *)
(***************************************************************************)
EXTENDS Integers, Sequences, FiniteSets, TLC

(* ------------------------------------------------------------------ *)
(* Bounds of the model                                                 *)
(* ------------------------------------------------------------------ *)
\* largest num_decks a bot is built with
MaxDecks == 2
\* largest num_games passed to play_games
MaxGames == 10
\* number of shuffle outcomes (of ShuffleOrders) a new shoe may take
NumShuffles == 6
\* longest hand built by the hand specification
MaxHandLen == 4

(* ------------------------------------------------------------------ *)
(* Card                                                                *)
(* ------------------------------------------------------------------ *)
suits == <<"S", "H", "D", "C">>

ranks == <<"2", "3", "4", "5", "6", "7", "8", "9", "10", "J", "Q", "K", "A">>

\* int(rank) for a numeral rank
IntOfRank(rank) == CHOOSE n \in 2..10 : ranks[n - 1] = rank

\* a card object; shoe/deck/suit/rank together are its identity (id(card))
Card(shoe_no, deck_no, suit, rank) ==
    [shoe |-> shoe_no, deck |-> deck_no, suit |-> suit, rank |-> rank]

Card_value(card) ==
    IF card.rank \in {"J", "Q", "K"} THEN 10
    ELSE IF card.rank = "A" THEN 11
    ELSE IntOfRank(card.rank)

(* ------------------------------------------------------------------ *)
(* Hand                                                                *)
(* ------------------------------------------------------------------ *)
RECURSIVE SumValues(_)
SumValues(cards) ==
    IF cards = <<>> THEN 0
    ELSE Card_value(Head(cards)) + SumValues(Tail(cards))

CountAces(cards) == Cardinality({k \in 1..Len(cards) : cards[k].rank = "A"})

\* a slip of the loop into a single test
ReduceAcesOnce(value, aces) ==
    IF value > 21 /\ aces > 0 THEN value - 10 ELSE value

\* the loop "while value > 21 and aces: value -= 10; aces -= 1"
RECURSIVE ReduceAces(_, _)
ReduceAces(value, aces) ==
    IF value > 21 /\ aces > 0 THEN ReduceAces(value - 10, aces - 1) ELSE value

get_value(cards) == ReduceAces(SumValues(cards), CountAces(cards))

is_blackjack(cards) == Len(cards) = 2 /\ get_value(cards) = 21

is_bust(cards) == get_value(cards) > 21

(* ------------------------------------------------------------------ *)
(* Rational numbers n/d with d > 0 (Python floats of the counting code) *)
(* ------------------------------------------------------------------ *)
Rat(n, d) == [n |-> n, d |-> d]

RatLess(a, b) == a.n * b.d < b.n * a.d

RatLeq(a, b) == a.n * b.d <= b.n * a.d

RatMax(a, b) == IF RatLess(a, b) THEN b ELSE a

(* ------------------------------------------------------------------ *)
(* Deck                                                                *)
(* ------------------------------------------------------------------ *)
\* position of a card in the list Deck.__init__ builds:
\* for _ in range(num_decks) for suit in suits for rank in ranks
CanonicalCard(shoe_no, pos) ==
    Card(shoe_no,
         ((pos - 1) \div 52) + 1,
         suits[(((pos - 1) % 52) \div 13) + 1],
         ranks[((pos - 1) % 13) + 1])

BuildCards(shoe_no, n) == [pos \in 1..(n * 52) |-> CanonicalCard(shoe_no, pos)]

\* outcomes of random.shuffle on one 52-card block: position j of the
\* shuffled block holds the card built at position ShuffleOrders[k][j]
ShuffleOrders == <<
    <<42, 41, 28, 15, 40, 27, 14, 1, 52, 39, 29, 26, 2, 13, 44, 51, 43, 38,
      25, 48, 45, 50, 46, 12, 49, 47, 36, 37, 33, 24, 16, 32, 20, 23, 3, 34,
      19, 6, 21, 8, 30, 7, 31, 35, 10, 22, 11, 17, 18, 5, 9, 4>>,
    <<27, 23, 3, 34, 22, 48, 37, 18, 40, 11, 19, 20, 44, 9, 29, 35, 50, 49,
      39, 13, 47, 38, 28, 33, 12, 42, 14, 10, 30, 16, 31, 8, 43, 41, 46, 52,
      26, 25, 51, 36, 15, 32, 17, 24, 6, 4, 45, 21, 1, 7, 5, 2>>,
    <<18, 36, 7, 49, 8, 43, 45, 20, 12, 21, 42, 41, 29, 11, 17, 37, 52, 30,
      50, 2, 10, 9, 38, 28, 35, 25, 40, 16, 26, 33, 19, 23, 6, 27, 24, 4,
      51, 39, 47, 48, 34, 32, 3, 31, 1, 5, 46, 22, 44, 15, 13, 14>>,
    <<26, 47, 4, 2, 5, 1, 16, 20, 6, 21, 7, 38, 48, 34, 31, 15, 49, 30, 8,
      18, 28, 45, 13, 23, 32, 11, 44, 50, 42, 25, 29, 43, 37, 10, 52, 35,
      27, 12, 22, 14, 40, 19, 9, 46, 39, 33, 17, 36, 51, 3, 24, 41>>,
    <<18, 26, 34, 13, 35, 49, 46, 28, 45, 51, 23, 20, 31, 43, 15, 21, 3, 47,
      38, 8, 17, 24, 5, 6, 37, 36, 50, 30, 42, 14, 32, 12, 44, 1, 40, 9, 39,
      22, 33, 29, 2, 41, 10, 48, 4, 11, 27, 19, 25, 7, 52, 16>>,
    <<41, 52, 39, 28, 42, 26, 29, 40, 27, 14, 15, 49, 47, 34, 48, 43, 35, 44,
      50, 16, 51, 46, 31, 33, 1, 45, 38, 36, 30, 21, 23, 37, 18, 13, 25, 2,
      32, 17, 24, 5, 11, 20, 7, 22, 8, 3, 12, 19, 6, 4, 10, 9>>,
    <<18, 40, 32, 11, 41, 12, 1, 20, 15, 51, 17, 9, 39, 45, 34, 46, 25, 30,
      23, 13, 22, 44, 31, 29, 50, 52, 8, 49, 19, 36, 2, 37, 43, 16, 47, 27,
      28, 6, 3, 14, 33, 48, 38, 24, 7, 35, 5, 4, 42, 26, 10, 21>> >>

\* Deck.shuffle with outcome k (each 52-card block permuted by order k)
shuffle(cards, k) ==
    [j \in 1..Len(cards) |->
        cards[((j - 1) \div 52) * 52 + ShuffleOrders[k][((j - 1) % 52) + 1]]]

\* Deck(num_decks) whose shuffle has outcome k
Deck(shoe_no, n, k) ==
    [cards |-> shuffle(BuildCards(shoe_no, n), k),
     num_decks |-> n,
     total_cards |-> n * 52]

cards_remaining(d) == Len(d.cards)

\* the percentage of the shoe that is left
penetration_of_rest(d) == Rat(Len(d.cards) * 100, d.total_cards)

\* the percentage of the shoe that has been dealt
penetration(d) == Rat((d.total_cards - Len(d.cards)) * 100, d.total_cards)

\* a shoe replaced only once the penetration is above the threshold
needs_shuffle_strict(d, threshold) == RatLess(Rat(threshold, 1), penetration(d))

\* penetration() >= threshold
needs_shuffle(d, threshold) == RatLeq(Rat(threshold, 1), penetration(d))

(* ------------------------------------------------------------------ *)
(* CardCounter                                                         *)
(* ------------------------------------------------------------------ *)
NewCounter == [running_count |-> 0, cards_seen |-> 0, seen_cards |-> {}]

\* a Hi-Lo that leaves the ace out of the high cards
HiLoAceNeutral(rank) ==
    IF rank \in {"2", "3", "4", "5", "6"} THEN 1
    ELSE IF rank \in {"10", "J", "Q", "K"} THEN -1
    ELSE 0

\* the Hi-Lo tag of a rank
HiLo(rank) ==
    IF rank \in {"2", "3", "4", "5", "6"} THEN 1
    ELSE IF rank \in {"10", "J", "Q", "K", "A"} THEN -1
    ELSE 0

\* update without the test of seen_cards
update_nodedup(c, card) ==
    [running_count |-> c.running_count + HiLo(card.rank),
     cards_seen |-> c.cards_seen + 1,
     seen_cards |-> c.seen_cards \cup {card}]

update(c, card) ==
    IF card \in c.seen_cards THEN c
    ELSE [running_count |-> c.running_count + HiLo(card.rank),
          cards_seen |-> c.cards_seen + 1,
          seen_cards |-> c.seen_cards \cup {card}]

\* cards_left / 52 without the floor of half a deck
decks_remaining_unclamped(cards_left) == Rat(cards_left, 52)

\* max(cards_left / 52, 0.5)
decks_remaining_of(cards_left) == RatMax(Rat(cards_left, 52), Rat(1, 2))

\* a guard that replaces only a negative decks_remaining
nonzero_divisor_negative_only(decks_remaining) ==
    IF decks_remaining.n < 0 THEN Rat(1, 2) ELSE decks_remaining

\* "avoid division by zero": decks_remaining <= 0 becomes 0.5
nonzero_divisor(decks_remaining) ==
    IF decks_remaining.n <= 0 THEN Rat(1, 2) ELSE decks_remaining

\* a get_true_count that raises every divisor below 0.5 to 0.5
get_true_count_clamped(c, decks_remaining) ==
    LET d == RatMax(decks_remaining, Rat(1, 2))
    IN  Rat(c.running_count * d.d, d.n)

\* get_true_count(decks_remaining) with the argument supplied; the quotient
\* running_count / (d.n / d.d) has denominator d.n, 0 when the division raises
get_true_count(c, decks_remaining) ==
    LET d == nonzero_divisor(decks_remaining)
    IN  Rat(c.running_count * d.d, d.n)

\* get_true_count() with decks_remaining left None
get_true_count_default(c) ==
    get_true_count(c, RatMax(Rat(52 - c.cards_seen, 52), Rat(1, 2)))

reset(c) == [running_count |-> 0, cards_seen |-> 0, seen_cards |-> {}]

(* ------------------------------------------------------------------ *)
(* Strategies                                                          *)
(* ------------------------------------------------------------------ *)
\* a policy that looks at the dealer's second card, the hole card
dealer_hole_card(game) == game.dealer_hand[2]

\* dealer_up_card = game.dealer_hand.cards[0]
dealer_up_card(game) == game.dealer_hand[1]

\* the value of the dealer's up-card as the strategies compute it
DealerUpValue(card) ==
    IF card.rank \in {"J", "Q", "K"} THEN 10
    ELSE IF card.rank = "A" THEN 11
    ELSE IntOfRank(card.rank)

\* 10 for J/Q/K, 1 for an ace, int(rank) otherwise
HardCardValue(card) ==
    IF card.rank \in {"J", "Q", "K"} THEN 10
    ELSE IF card.rank = "A" THEN 1
    ELSE IntOfRank(card.rank)

RECURSIVE HardValue(_)
HardValue(cards) ==
    IF cards = <<>> THEN 0
    ELSE HardCardValue(Head(cards)) + HardValue(Tail(cards))

\* is_soft of basic_strategy and card_counting_strategy
IsSoft(cards) ==
    /\ \E k \in 1..Len(cards) : cards[k].rank = "A"
    /\ get_value(cards) # HardValue(cards)
    /\ get_value(cards) <= 21

\* a soft-hand branch that always stands on a soft 18
SoftActionStand18(player_value, dealer_value) ==
    IF player_value >= 18 THEN "stand" ELSE "hit"

\* the soft-hand branch shared by both strategies
SoftAction(player_value, dealer_value) ==
    IF player_value >= 19 THEN "stand"
    ELSE IF player_value = 18
         THEN (IF dealer_value \in {9, 10, 11} THEN "hit" ELSE "stand")
    ELSE "hit"

num_strategy(game, hit_num) ==
    IF get_value(game.player_hand) <= hit_num THEN "hit" ELSE "stand"

basic_strategy(game) ==
    LET player_value == get_value(game.player_hand)
        dealer_value == DealerUpValue(dealer_up_card(game))
    IN  IF IsSoft(game.player_hand) THEN SoftAction(player_value, dealer_value)
        ELSE IF player_value >= 17 THEN "stand"
        ELSE IF player_value <= 11 THEN "hit"
        ELSE IF player_value = 12
             THEN (IF dealer_value \in {4, 5, 6} THEN "stand" ELSE "hit")
        ELSE IF player_value \in {13, 14, 15, 16}
             THEN (IF dealer_value \in {2, 3, 4, 5, 6} THEN "stand" ELSE "hit")
        ELSE "stand"

\* true_count >= k and true_count <= k for an integer k
TcGeq(true_count, k) == RatLeq(Rat(k, 1), true_count)

TcLeq(true_count, k) == RatLeq(true_count, Rat(k, 1))

\* the index plays for hard 12..16
IndexPlay(player_value, dealer_value, true_count) ==
    IF player_value = 16 THEN
        IF dealer_value <= 6 THEN "stand"
        ELSE IF dealer_value \in {7, 8} THEN "hit"
        ELSE IF dealer_value = 9
             THEN (IF TcGeq(true_count, 5) THEN "stand" ELSE "hit")
        ELSE (IF TcGeq(true_count, 0) THEN "stand" ELSE "hit")
    ELSE IF player_value = 15 THEN
        IF dealer_value \in {2, 3, 4, 5, 6} THEN "stand"
        ELSE IF dealer_value = 10
             THEN (IF TcGeq(true_count, 4) THEN "stand" ELSE "hit")
        ELSE "hit"
    ELSE IF player_value = 14 THEN
        IF dealer_value \in {2, 3, 4, 5, 6} THEN "stand" ELSE "hit"
    ELSE IF player_value = 13 THEN
        IF dealer_value = 2
        THEN (IF TcLeq(true_count, -1) THEN "hit" ELSE "stand")
        ELSE IF dealer_value = 3
             THEN (IF TcLeq(true_count, -2) THEN "hit" ELSE "stand")
        ELSE IF dealer_value \in {4, 5, 6} THEN "stand"
        ELSE "hit"
    ELSE IF player_value = 12 THEN
        IF dealer_value = 4
        THEN (IF TcLeq(true_count, 0) THEN "hit" ELSE "stand")
        ELSE IF dealer_value = 5
             THEN (IF TcLeq(true_count, -5) THEN "hit" ELSE "stand")
        ELSE IF dealer_value = 6
             THEN (IF TcLeq(true_count, -1) THEN "hit" ELSE "stand")
        ELSE IF dealer_value = 3
             THEN (IF TcGeq(true_count, 2) THEN "stand" ELSE "hit")
        ELSE IF dealer_value = 2
             THEN (IF TcGeq(true_count, 3) THEN "stand" ELSE "hit")
        ELSE "hit"
    ELSE "stand"

\* a counting strategy that sends every hand through the hard-hand rows
card_counting_strategy_hard_rows_only(game, c) ==
    LET player_value == get_value(game.player_hand)
        dealer_value == DealerUpValue(dealer_up_card(game))
        cards_left == cards_remaining(game.deck)
        true_count == get_true_count(c, decks_remaining_of(cards_left))
    IN  IF player_value >= 17 THEN "stand"
        ELSE IF player_value <= 11 THEN "hit"
        ELSE IndexPlay(player_value, dealer_value, true_count)

card_counting_strategy(game, c) ==
    LET player_value == get_value(game.player_hand)
        dealer_value == DealerUpValue(dealer_up_card(game))
        cards_left == cards_remaining(game.deck)
        true_count == get_true_count(c, decks_remaining_of(cards_left))
    IN  IF IsSoft(game.player_hand) THEN SoftAction(player_value, dealer_value)
        ELSE IF player_value >= 17 THEN "stand"
        ELSE IF player_value <= 11 THEN "hit"
        ELSE IndexPlay(player_value, dealer_value, true_count)

(* ------------------------------------------------------------------ *)
(* GameStats                                                           *)
(* ------------------------------------------------------------------ *)
\* bankroll is kept in half units (a blackjack pays bet * 1.5)
NewStats ==
    [wins |-> 0, losses |-> 0, pushes |-> 0, blackjacks |-> 0, busts |-> 0,
     total_games |-> 0, bankroll |-> 0, total_bet |-> 0]

\* a record_result that pays a natural blackjack at even money
record_result_even_money(st, result, bet_amount, bj, bust) ==
    LET s0 == [st EXCEPT !.total_games = @ + 1, !.total_bet = @ + bet_amount]
    IN  IF result = "win" THEN
            IF bj THEN [s0 EXCEPT !.wins = @ + 1, !.blackjacks = @ + 1,
                                  !.bankroll = @ + 2 * bet_amount]
            ELSE [s0 EXCEPT !.wins = @ + 1, !.bankroll = @ + 2 * bet_amount]
        ELSE IF result = "loss" THEN
            [s0 EXCEPT !.losses = @ + 1, !.bankroll = @ - 2 * bet_amount,
                       !.busts = IF bust THEN @ + 1 ELSE @]
        ELSE IF result = "push" THEN [s0 EXCEPT !.pushes = @ + 1]
        ELSE s0

\* GameStats.record_result; the bankroll is kept in halves of a unit
record_result(st, result, bet_amount, bj, bust) ==
    LET s0 == [st EXCEPT !.total_games = @ + 1, !.total_bet = @ + bet_amount]
    IN  IF result = "win" THEN
            IF bj THEN [s0 EXCEPT !.wins = @ + 1, !.blackjacks = @ + 1,
                                  !.bankroll = @ + 3 * bet_amount]
            ELSE [s0 EXCEPT !.wins = @ + 1, !.bankroll = @ + 2 * bet_amount]
        ELSE IF result = "loss" THEN
            [s0 EXCEPT !.losses = @ + 1, !.bankroll = @ - 2 * bet_amount,
                       !.busts = IF bust THEN @ + 1 ELSE @]
        ELSE IF result = "push" THEN [s0 EXCEPT !.pushes = @ + 1]
        ELSE s0

\* a bet ramp whose tiers include their upper ends
get_bet_size_inclusive(true_count) ==
    IF RatLeq(true_count, Rat(0, 1)) THEN 0
    ELSE IF RatLeq(true_count, Rat(1, 1)) THEN 1
    ELSE IF RatLeq(true_count, Rat(2, 1)) THEN 2
    ELSE IF RatLeq(true_count, Rat(3, 1)) THEN 5
    ELSE IF RatLeq(true_count, Rat(4, 1)) THEN 10
    ELSE IF RatLeq(true_count, Rat(5, 1)) THEN 25
    ELSE 50

(* ------------------------------------------------------------------ *)
(* BlackjackBot                                                        *)
(* ------------------------------------------------------------------ *)
get_bet_size(true_count) ==
    IF RatLess(true_count, Rat(0, 1)) THEN 0
    ELSE IF RatLess(true_count, Rat(1, 1)) THEN 1
    ELSE IF RatLess(true_count, Rat(2, 1)) THEN 2
    ELSE IF RatLess(true_count, Rat(3, 1)) THEN 5
    ELSE IF RatLess(true_count, Rat(4, 1)) THEN 10
    ELSE IF RatLess(true_count, Rat(5, 1)) THEN 25
    ELSE 50

\* the call of record_result that _record_game_result makes, with the
\* dealer-bust branch left out
GameResultNoDealerBust(player_cards, dealer_cards) ==
    LET player_val == get_value(player_cards)
        dealer_val == get_value(dealer_cards)
        player_bj == is_blackjack(player_cards)
        dealer_bj == is_blackjack(dealer_cards)
    IN  IF is_bust(player_cards)
            THEN [result |-> "loss", is_blackjack |-> FALSE, is_bust |-> TRUE]
        ELSE IF player_bj /\ ~dealer_bj
            THEN [result |-> "win", is_blackjack |-> TRUE, is_bust |-> FALSE]
        ELSE IF dealer_bj /\ ~player_bj
            THEN [result |-> "loss", is_blackjack |-> FALSE, is_bust |-> FALSE]
        ELSE IF player_val > dealer_val
            THEN [result |-> "win", is_blackjack |-> FALSE, is_bust |-> FALSE]
        ELSE IF player_val < dealer_val
            THEN [result |-> "loss", is_blackjack |-> FALSE, is_bust |-> FALSE]
        ELSE [result |-> "push", is_blackjack |-> FALSE, is_bust |-> FALSE]

\* the call of record_result that _record_game_result makes
GameResult(player_cards, dealer_cards) ==
    LET player_val == get_value(player_cards)
        dealer_val == get_value(dealer_cards)
        player_bust == is_bust(player_cards)
        dealer_bust == is_bust(dealer_cards)
        player_bj == is_blackjack(player_cards)
        dealer_bj == is_blackjack(dealer_cards)
    IN  IF player_bust
            THEN [result |-> "loss", is_blackjack |-> FALSE, is_bust |-> TRUE]
        ELSE IF dealer_bust
            THEN [result |-> "win", is_blackjack |-> FALSE, is_bust |-> FALSE]
        ELSE IF player_bj /\ ~dealer_bj
            THEN [result |-> "win", is_blackjack |-> TRUE, is_bust |-> FALSE]
        ELSE IF dealer_bj /\ ~player_bj
            THEN [result |-> "loss", is_blackjack |-> FALSE, is_bust |-> FALSE]
        ELSE IF player_val > dealer_val
            THEN [result |-> "win", is_blackjack |-> FALSE, is_bust |-> FALSE]
        ELSE IF player_val < dealer_val
            THEN [result |-> "loss", is_blackjack |-> FALSE, is_bust |-> FALSE]
        ELSE [result |-> "push", is_blackjack |-> FALSE, is_bust |-> FALSE]

(* ------------------------------------------------------------------ *)
(* State                                                               *)
(* ------------------------------------------------------------------ *)
VARIABLES
    pc,                 \* position in play_games / BlackjackGame.play
    strategy,           \* bot.strategy: "num", "basic", "counting", "other"
    hit_num,            \* the hit_num bound into a num_strategy lambda
    use_card_counting,  \* bot.use_card_counting (bot.counter is not None)
    num_decks,          \* bot.num_decks
    shuffle_threshold,  \* bot.shuffle_threshold
    stats,              \* bot.stats
    current_bet,        \* bot.current_bet
    deck,               \* bot.deck
    shoe_no,            \* number of Deck objects built so far
    counter,            \* bot.counter (meaningful when use_card_counting)
    num_games,          \* argument of play_games
    i,                  \* loop variable of play_games
    player_hand,        \* game.player_hand.cards
    dealer_hand,        \* game.dealer_hand.cards
    action,             \* last value returned by get_action in this game
    reveals,            \* show_hands(hide_dealer_card=False) calls in this game
    seen_at_start,      \* counter.cards_seen when this game was created
    recorded,           \* arguments of the last record_result call
    submitted,          \* cards passed to counter.update by direct calls, in order
    tc_call             \* the direct get_true_count call made on this counter state

\* no direct get_true_count call has been made since the last update
NoCall == [kind |-> "none", arg |-> Rat(0, 1), result |-> Rat(0, 1)]

vars == <<pc, strategy, hit_num, use_card_counting, num_decks,
          shuffle_threshold, stats, current_bet, deck, shoe_no, counter,
          num_games, i, player_hand, dealer_hand, action, reveals,
          seen_at_start, recorded, submitted, tc_call>>

config == <<strategy, hit_num, use_card_counting, num_decks, shuffle_threshold>>

\* hit thresholds of the num_strategy bots
HitNums == {3, 16, 20, 21}

\* shuffle_threshold values of the bots
Thresholds == {70, 75, 80}

\* what a strategy function may return
Actions == {"hit", "stand", "double"}

\* bot.deck before play_games builds a shoe
NoDeck == [cards |-> <<>>, num_decks |-> 0, total_cards |-> 0]

NoRecord == [result |-> "none", bet |-> 0, is_blackjack |-> FALSE, is_bust |-> FALSE]

\* the game object handed to the strategies
Game == [player_hand |-> player_hand, dealer_hand |-> dealer_hand, deck |-> deck]

\* the values get_action (the wrapper of _bot_action_wrapper) may return;
\* strategy "other" is a callable that answers as the shipped strategy of its
\* signature does, or with a value that is neither 'hit' nor 'stand'
get_action(game) ==
    IF strategy = "num" THEN {num_strategy(game, hit_num)}
    ELSE IF strategy = "basic" THEN {basic_strategy(game)}
    ELSE IF strategy = "counting" THEN {card_counting_strategy(game, counter)}
    ELSE IF use_card_counting
         THEN {card_counting_strategy(game, counter)} \cup (Actions \ {"hit", "stand"})
    ELSE {basic_strategy(game)} \cup (Actions \ {"hit", "stand"})

(* ------------------------------------------------------------------ *)
(* Dealing: g is the game with the shoe and counter it shares           *)
(* ------------------------------------------------------------------ *)
Table(d, c, ph, dh) ==
    [deck |-> d, counter |-> c, player_hand |-> ph, dealer_hand |-> dh, ok |-> TRUE]

\* a deal that reads the top card and leaves it in the shoe
DealToWithoutPop(g, who, counted) ==
    IF ~g.ok THEN g
    ELSE IF Len(g.deck.cards) = 0 THEN [g EXCEPT !.ok = FALSE]
    ELSE LET card == g.deck.cards[Len(g.deck.cards)]
             c == IF counted /\ use_card_counting THEN update(g.counter, card)
                  ELSE g.counter
         IN  IF who = "player"
             THEN [g EXCEPT !.counter = c, !.player_hand = Append(@, card)]
             ELSE [g EXCEPT !.counter = c, !.dealer_hand = Append(@, card)]

\* hand.add_card(deck.deal(counter or None)); ok = FALSE when pop() raises
DealTo(g, who, counted) ==
    IF ~g.ok THEN g
    ELSE IF Len(g.deck.cards) = 0 THEN [g EXCEPT !.ok = FALSE]
    ELSE LET card == g.deck.cards[Len(g.deck.cards)]
             d == [g.deck EXCEPT !.cards = SubSeq(@, 1, Len(@) - 1)]
             c == IF counted /\ use_card_counting THEN update(g.counter, card)
                  ELSE g.counter
         IN  IF who = "player"
             THEN [g EXCEPT !.deck = d, !.counter = c,
                            !.player_hand = Append(@, card)]
             ELSE [g EXCEPT !.deck = d, !.counter = c,
                            !.dealer_hand = Append(@, card)]

\* deal_initial_cards that also hands the hole card to the counter
deal_initial_cards_all_counted(g) ==
    DealTo(DealTo(DealTo(DealTo(g, "player", TRUE), "dealer", TRUE),
                  "player", TRUE), "dealer", TRUE)

deal_initial_cards(g) ==
    DealTo(DealTo(DealTo(DealTo(g, "player", TRUE), "dealer", TRUE),
                  "player", TRUE), "dealer", FALSE)

\* the counter after show_hands(hide_dealer_card)
show_hands(c, dh, hide_dealer_card) ==
    IF ~hide_dealer_card /\ use_card_counting /\ Len(dh) >= 2
    THEN update(c, dh[2])
    ELSE c

(* ------------------------------------------------------------------ *)
(* BlackjackBot.__init__                                               *)
(* ------------------------------------------------------------------ *)
Init ==
    /\ pc = "idle"
    /\ \/ strategy = "num" /\ hit_num \in HitNums /\ use_card_counting = FALSE
       \/ strategy = "basic" /\ hit_num = 0 /\ use_card_counting = FALSE
       \/ strategy = "counting" /\ hit_num = 0 /\ use_card_counting = TRUE
       \/ strategy = "other" /\ hit_num = 0 /\ use_card_counting \in BOOLEAN
    /\ num_decks \in 1..MaxDecks
    /\ shuffle_threshold \in Thresholds
    /\ stats = NewStats
    /\ current_bet = 0
    /\ deck = NoDeck
    /\ shoe_no = 0
    /\ counter = NewCounter
    /\ num_games = 0
    /\ i = 0
    /\ player_hand = <<>>
    /\ dealer_hand = <<>>
    /\ action = "none"
    /\ reveals = 0
    /\ seen_at_start = 0
    /\ recorded = NoRecord
    /\ submitted = <<>>
    /\ tc_call = NoCall

(* ------------------------------------------------------------------ *)
(* BlackjackBot.play_games                                             *)
(* ------------------------------------------------------------------ *)
\* play_games(n) up to the loop: a fresh shoe and a reset counter
PlayGames ==
    /\ pc = "idle"
    /\ \E n \in 1..MaxGames, k \in 1..NumShuffles :
        /\ num_games' = n
        /\ deck' = Deck(shoe_no + 1, num_decks, k)
    /\ shoe_no' = shoe_no + 1
    /\ counter' = IF use_card_counting THEN reset(counter) ELSE counter
    /\ i' = 0
    /\ pc' = "loop"
    /\ UNCHANGED <<config, stats, current_bet, player_hand, dealer_hand,
                   action, reveals, seen_at_start, recorded, submitted,
                   tc_call>>

\* the bet play_games sets for the next game
BetFor(d, c) ==
    IF use_card_counting
    THEN get_bet_size(get_true_count(c, decks_remaining_of(cards_remaining(d))))
    ELSE 1

\* an iteration that sizes the bet before the reshuffle test
StartGameBetBeforeReshuffle ==
    /\ pc = "loop"
    /\ i < num_games
    /\ \/ /\ needs_shuffle(deck, shuffle_threshold)
          /\ \E k \in 1..NumShuffles : deck' = Deck(shoe_no + 1, num_decks, k)
          /\ shoe_no' = shoe_no + 1
          /\ counter' = IF use_card_counting THEN reset(counter) ELSE counter
       \/ /\ ~needs_shuffle(deck, shuffle_threshold)
          /\ UNCHANGED <<deck, shoe_no, counter>>
    /\ current_bet' = BetFor(deck, counter)
    /\ player_hand' = <<>>
    /\ dealer_hand' = <<>>
    /\ action' = "none"
    /\ reveals' = 0
    /\ seen_at_start' = counter'.cards_seen
    /\ pc' = "play"
    /\ UNCHANGED <<config, stats, num_games, i, recorded, submitted, tc_call>>

\* one iteration of the loop up to game.play: reshuffle test, bet, new game
StartGame ==
    /\ pc = "loop"
    /\ i < num_games
    /\ \/ /\ needs_shuffle(deck, shuffle_threshold)
          /\ \E k \in 1..NumShuffles : deck' = Deck(shoe_no + 1, num_decks, k)
          /\ shoe_no' = shoe_no + 1
          /\ counter' = IF use_card_counting THEN reset(counter) ELSE counter
       \/ /\ ~needs_shuffle(deck, shuffle_threshold)
          /\ UNCHANGED <<deck, shoe_no, counter>>
    /\ current_bet' = BetFor(deck', counter')
    /\ player_hand' = <<>>
    /\ dealer_hand' = <<>>
    /\ action' = "none"
    /\ reveals' = 0
    /\ seen_at_start' = counter'.cards_seen
    /\ pc' = "play"
    /\ UNCHANGED <<config, stats, num_games, i, recorded, submitted, tc_call>>

\* the loop is over: play_games returns
Finish ==
    /\ pc = "loop"
    /\ i >= num_games
    /\ pc' = "done"
    /\ UNCHANGED <<config, stats, current_bet, deck, shoe_no, counter,
                   num_games, i, player_hand, dealer_hand, action, reveals,
                   seen_at_start, recorded, submitted, tc_call>>

(* ------------------------------------------------------------------ *)
(* BlackjackGame.play                                                  *)
(* ------------------------------------------------------------------ *)
frame == <<config, stats, current_bet, shoe_no, num_games, i, seen_at_start,
           recorded, submitted, tc_call>>

\* the test of play for a natural, looking at the player's hand only
has_natural_player_only(ph, dh) == is_blackjack(ph)

\* the test of play for a natural
has_natural(ph, dh) == is_blackjack(ph) \/ is_blackjack(dh)

\* where a hit leads when the bust test is left out
after_hit_no_bust_test(ph) == "player_turn"

\* where a hit leads: player_turn returns False on a bust and play returns
after_hit(ph) == IF is_bust(ph) THEN "record" ELSE "player_turn"

\* deal_initial_cards, then show_hands() with the hole card hidden
DealInitial ==
    /\ pc = "play"
    /\ LET g == deal_initial_cards(Table(deck, counter, player_hand, dealer_hand))
       IN  /\ deck' = g.deck
           /\ counter' = show_hands(g.counter, g.dealer_hand, TRUE)
           /\ player_hand' = g.player_hand
           /\ dealer_hand' = g.dealer_hand
           /\ pc' = IF g.ok THEN "dealt" ELSE "exhausted"
    /\ UNCHANGED <<frame, action, reveals>>

\* a natural: reveal the dealer's cards, determine_winner, return
Natural ==
    /\ pc = "dealt"
    /\ has_natural(player_hand, dealer_hand)
    /\ counter' = show_hands(counter, dealer_hand, FALSE)
    /\ reveals' = reveals + 1
    /\ pc' = "record"
    /\ UNCHANGED <<frame, deck, player_hand, dealer_hand, action>>

\* no natural: play enters player_turn
EnterPlayerTurn ==
    /\ pc = "dealt"
    /\ ~has_natural(player_hand, dealer_hand)
    /\ pc' = "player_turn"
    /\ UNCHANGED <<frame, deck, counter, player_hand, dealer_hand, action, reveals>>

\* player_turn: action = get_action(self)
GetAction ==
    /\ pc = "player_turn"
    /\ action' \in get_action(Game)
    /\ pc' = "player_act"
    /\ UNCHANGED <<frame, deck, counter, player_hand, dealer_hand, reveals>>

\* player_turn, action == 'hit': deal one card, return False on a bust
PlayerHit ==
    /\ pc = "player_act"
    /\ action = "hit"
    /\ LET g == DealTo(Table(deck, counter, player_hand, dealer_hand), "player", TRUE)
       IN  /\ deck' = g.deck
           /\ counter' = g.counter
           /\ player_hand' = g.player_hand
           /\ pc' = IF ~g.ok THEN "exhausted"
                    ELSE after_hit(g.player_hand)
    /\ UNCHANGED <<frame, dealer_hand, action, reveals>>

\* player_turn, action == 'stand': return True, play goes to dealer_turn
PlayerStand ==
    /\ pc = "player_act"
    /\ action = "stand"
    /\ pc' = "dealer_turn"
    /\ UNCHANGED <<frame, deck, counter, player_hand, dealer_hand, action, reveals>>

\* player_turn, any other action: print a message and loop
PlayerInvalid ==
    /\ pc = "player_act"
    /\ action \notin {"hit", "stand"}
    /\ pc' = "player_turn"
    /\ UNCHANGED <<frame, deck, counter, player_hand, dealer_hand, action, reveals>>

\* a dealer who also draws on a soft 17
dealer_must_hit_soft17(cards) ==
    \/ get_value(cards) < 17
    \/ get_value(cards) = 17 /\ IsSoft(cards)

\* dealer_turn: the condition of the while loop
dealer_must_hit(cards) == get_value(cards) < 17

\* dealer_turn: show_hands(hide_dealer_card=False)
DealerReveal ==
    /\ pc = "dealer_turn"
    /\ counter' = show_hands(counter, dealer_hand, FALSE)
    /\ reveals' = reveals + 1
    /\ pc' = "dealer_loop"
    /\ UNCHANGED <<frame, deck, player_hand, dealer_hand, action>>

\* a dealer draw whose failed deal is swallowed: the round is recorded
DealerDrawRecovering ==
    /\ pc = "dealer_loop"
    /\ dealer_must_hit(dealer_hand)
    /\ LET g == DealTo(Table(deck, counter, player_hand, dealer_hand), "dealer", TRUE)
       IN  /\ deck' = g.deck
           /\ counter' = g.counter
           /\ dealer_hand' = g.dealer_hand
           /\ pc' = IF g.ok THEN "dealer_loop" ELSE "record"
    /\ UNCHANGED <<frame, player_hand, action, reveals>>

\* dealer_turn: one pass of "while self.dealer_hand.get_value() < 17"
DealerDraw ==
    /\ pc = "dealer_loop"
    /\ dealer_must_hit(dealer_hand)
    /\ LET g == DealTo(Table(deck, counter, player_hand, dealer_hand), "dealer", TRUE)
       IN  /\ deck' = g.deck
           /\ counter' = g.counter
           /\ dealer_hand' = g.dealer_hand
           /\ pc' = IF g.ok THEN "dealer_loop" ELSE "exhausted"
    /\ UNCHANGED <<frame, player_hand, action, reveals>>

\* dealer_turn: the loop is over; a bust ends play, otherwise the showdown
DealerStop ==
    /\ pc = "dealer_loop"
    /\ ~dealer_must_hit(dealer_hand)
    /\ pc' = IF is_bust(dealer_hand) THEN "record" ELSE "showdown"
    /\ UNCHANGED <<frame, deck, counter, player_hand, dealer_hand, action, reveals>>

\* show_hands(hide_dealer_card=False) and determine_winner at the end of play
Showdown ==
    /\ pc = "showdown"
    /\ counter' = show_hands(counter, dealer_hand, FALSE)
    /\ reveals' = reveals + 1
    /\ pc' = "record"
    /\ UNCHANGED <<frame, deck, player_hand, dealer_hand, action>>

\* a _record_game_result that flags every loss as a bust
RecordGameResultBustOnAnyLoss ==
    /\ pc = "record"
    /\ LET r == GameResult(player_hand, dealer_hand)
           bust == r.result = "loss"
       IN  /\ stats' = record_result(stats, r.result, current_bet,
                                     r.is_blackjack, bust)
           /\ recorded' = [result |-> r.result, bet |-> current_bet,
                           is_blackjack |-> r.is_blackjack, is_bust |-> bust]
    /\ i' = i + 1
    /\ pc' = "loop"
    /\ UNCHANGED <<config, current_bet, deck, shoe_no, counter, num_games,
                   player_hand, dealer_hand, action, reveals, seen_at_start,
                   submitted, tc_call>>

\* _record_game_result(game), then the next iteration of the loop
RecordGameResult ==
    /\ pc = "record"
    /\ LET r == GameResult(player_hand, dealer_hand)
       IN  /\ stats' = record_result(stats, r.result, current_bet,
                                     r.is_blackjack, r.is_bust)
           /\ recorded' = [result |-> r.result, bet |-> current_bet,
                           is_blackjack |-> r.is_blackjack, is_bust |-> r.is_bust]
    /\ i' = i + 1
    /\ pc' = "loop"
    /\ UNCHANGED <<config, current_bet, deck, shoe_no, counter, num_games,
                   player_hand, dealer_hand, action, reveals, seen_at_start,
                   submitted, tc_call>>

Next ==
    \/ PlayGames
    \/ StartGame
    \/ Finish
    \/ DealInitial
    \/ Natural
    \/ EnterPlayerTurn
    \/ GetAction
    \/ PlayerHit
    \/ PlayerStand
    \/ PlayerInvalid
    \/ DealerReveal
    \/ DealerDraw
    \/ DealerStop
    \/ Showdown
    \/ RecordGameResult

Spec == Init /\ [][Next]_vars

(* ------------------------------------------------------------------ *)
(* Hands of any cards: Hand.add_card applied to an empty hand          *)
(* ------------------------------------------------------------------ *)
HandInit ==
    /\ pc = "hand"
    /\ strategy = "basic" /\ hit_num = 0 /\ use_card_counting = FALSE
    /\ num_decks = 1
    /\ shuffle_threshold = 75
    /\ stats = NewStats
    /\ current_bet = 0
    /\ deck = NoDeck
    /\ shoe_no = 0
    /\ counter = NewCounter
    /\ num_games = 0
    /\ i = 0
    /\ player_hand = <<>>
    /\ dealer_hand = <<>>
    /\ action = "none"
    /\ reveals = 0
    /\ seen_at_start = 0
    /\ recorded = NoRecord
    /\ submitted = <<>>
    /\ tc_call = NoCall

\* add_card of a card of any rank (the k-th card comes from deck k)
AddCard ==
    /\ pc = "hand"
    /\ Len(player_hand) < MaxHandLen
    /\ \E r \in 1..13 :
        player_hand' = Append(player_hand,
                              Card(0, Len(player_hand) + 1, "S", ranks[r]))
    /\ UNCHANGED <<pc, config, stats, current_bet, deck, shoe_no, counter,
                   num_games, i, dealer_hand, action, reveals, seen_at_start,
                   recorded, submitted, tc_call>>

HandNext == AddCard

HandSpec == HandInit /\ [][HandNext]_vars

(* ------------------------------------------------------------------ *)
(* basic_strategy asked about any player hand against any up-card      *)
(* ------------------------------------------------------------------ *)
\* ranks of the dealer's hole card (never a natural with the up-card)
HoleRanks == {"6", "9"}

ChartInit ==
    /\ pc = "chart"
    /\ strategy = "basic" /\ hit_num = 0 /\ use_card_counting = FALSE
    /\ num_decks = 1
    /\ shuffle_threshold = 75
    /\ stats = NewStats
    /\ current_bet = 0
    /\ deck = NoDeck
    /\ shoe_no = 0
    /\ counter = NewCounter
    /\ num_games = 0
    /\ i = 0
    /\ player_hand = <<>>
    /\ \E up \in 1..13, hole \in HoleRanks :
          dealer_hand = <<Card(0, 1, "H", ranks[up]), Card(0, 2, "H", hole)>>
    /\ action = "none"
    /\ reveals = 0
    /\ seen_at_start = 0
    /\ recorded = NoRecord
    /\ submitted = <<>>
    /\ tc_call = NoCall

\* add_card of a card of any rank to the player's hand
ChartAddCard ==
    /\ pc = "chart"
    /\ Len(player_hand) < MaxHandLen - 1
    /\ \E r \in 1..13 :
        player_hand' = Append(player_hand,
                              Card(0, Len(player_hand) + 1, "S", ranks[r]))
    /\ action' = "none"
    /\ UNCHANGED <<pc, config, stats, current_bet, deck, shoe_no, counter,
                   num_games, i, dealer_hand, reveals, seen_at_start,
                   recorded, submitted, tc_call>>

\* the call basic_strategy(game)
ChartDecide ==
    /\ pc = "chart"
    /\ action = "none"
    /\ action' = basic_strategy(Game)
    /\ UNCHANGED <<pc, config, stats, current_bet, deck, shoe_no, counter,
                   num_games, i, player_hand, dealer_hand, reveals,
                   seen_at_start, recorded, submitted, tc_call>>

ChartNext ==
    \/ ChartAddCard
    \/ ChartDecide

ChartSpec == ChartInit /\ [][ChartNext]_vars

(* ------------------------------------------------------------------ *)
(* A shipped policy asked about any two-card hand (the counting one at *)
(* any count), then followed through the hits it asks for              *)
(* ------------------------------------------------------------------ *)
\* running counts and numbers of cards left of the shoe at the first decision
CountRunningCounts == (0 - 6)..6

CountCardsLeft == {13, 39, 52}

\* a two-deck shoe from which all but cards_left cards have been dealt
CountShoe(cards_left) ==
    LET d == Deck(1, 2, 1)
    IN  [d EXCEPT !.cards = SubSeq(d.cards, 1, cards_left)]

\* the cards dealt from that shoe, first dealt first
CountDealt(cards_left) ==
    LET d == Deck(1, 2, 1)
    IN  [j \in 1..(d.total_cards - cards_left) |-> d.cards[d.total_cards + 1 - j]]

\* the counter after update() of the first m cards of Hi-Lo value tag in cards
RECURSIVE UpdateWith(_, _, _, _)
UpdateWith(c, cards, tag, m) ==
    IF m = 0 \/ cards = <<>> THEN c
    ELSE IF HiLo(Head(cards).rank) = tag
         THEN UpdateWith(update(c, Head(cards)), Tail(cards), tag, m - 1)
         ELSE UpdateWith(c, Tail(cards), tag, m)

\* a counter whose running count is rc after observing dealt cards
CounterAt(rc, cards_left) ==
    IF rc >= 0 THEN UpdateWith(NewCounter, CountDealt(cards_left), 1, rc)
    ELSE UpdateWith(NewCounter, CountDealt(cards_left), -1, 0 - rc)

CountInit ==
    /\ pc = "count_deal"
    /\ \/ /\ strategy = "counting" /\ hit_num = 0 /\ use_card_counting = TRUE
          /\ \E rc \in CountRunningCounts, cards_left \in CountCardsLeft :
                /\ deck = CountShoe(cards_left)
                /\ counter = CounterAt(rc, cards_left)
       \/ /\ \/ strategy = "basic" /\ hit_num = 0
             \/ strategy = "num" /\ hit_num \in HitNums
          /\ use_card_counting = FALSE
          /\ deck = CountShoe(52)
          /\ counter = NewCounter
    /\ num_decks = 2
    /\ shuffle_threshold = 75
    /\ stats = NewStats
    /\ current_bet = 0
    /\ shoe_no = 1
    /\ num_games = 0
    /\ i = 0
    /\ player_hand = <<>>
    /\ \E up \in 1..13, hole \in HoleRanks :
          dealer_hand = <<Card(0, 1, "H", ranks[up]), Card(0, 2, "H", hole)>>
    /\ action = "none"
    /\ reveals = 0
    /\ seen_at_start = counter.cards_seen
    /\ recorded = NoRecord
    /\ submitted = <<>>
    /\ tc_call = NoCall

\* the player's two initial cards, of any ranks
CountDeal ==
    /\ pc = "count_deal"
    /\ \E r \in 1..13 :
        player_hand' = Append(player_hand,
                              Card(0, Len(player_hand) + 1, "S", ranks[r]))
    /\ pc' = IF Len(player_hand') = 2 THEN "count_turn" ELSE "count_deal"
    /\ UNCHANGED <<config, stats, current_bet, deck, shoe_no, counter,
                   num_games, i, dealer_hand, action, reveals, seen_at_start,
                   recorded, submitted, tc_call>>

\* a policy call that also shows the dealer's hole card to the counter
CountDecidePeeking ==
    /\ pc = "count_turn"
    /\ action' \in get_action(Game)
    /\ counter' = IF use_card_counting THEN update(counter, dealer_hand[2])
                  ELSE counter
    /\ pc' = "count_act"
    /\ UNCHANGED <<frame, deck, player_hand, dealer_hand, reveals>>

\* player_turn: action = get_action(self), the policy of the bot
CountDecide ==
    /\ pc = "count_turn"
    /\ action' \in get_action(Game)
    /\ pc' = "count_act"
    /\ UNCHANGED <<frame, deck, counter, player_hand, dealer_hand, reveals>>

\* player_turn, action == 'hit': a card from the shoe, seen by the counter
CountHit ==
    /\ pc = "count_act"
    /\ action = "hit"
    /\ Len(player_hand) < MaxHandLen
    /\ LET g == DealTo(Table(deck, counter, player_hand, dealer_hand), "player", TRUE)
       IN  /\ deck' = g.deck
           /\ counter' = g.counter
           /\ player_hand' = g.player_hand
           /\ pc' = IF ~g.ok THEN "exhausted"
                    ELSE IF is_bust(g.player_hand) THEN "count_done"
                    ELSE "count_turn"
    /\ UNCHANGED <<frame, dealer_hand, action, reveals>>

CountNext ==
    \/ CountDeal
    \/ CountDecide
    \/ CountHit

CountSpec == CountInit /\ [][CountNext]_vars

(* ------------------------------------------------------------------ *)
(* A CardCounter called directly: update, reset, get_true_count        *)
(* ------------------------------------------------------------------ *)
\* calls of update made in a row
MaxUpdates == 4

\* cards handed to update: a low, a neutral and a high card of each deck
CounterCards == {Card(1, d, "S", r) : d \in 1..2, r \in {"5", "8", "K"}}

\* values of the decks_remaining argument
SuppliedDecks == {Rat(0 - 1, 1), Rat(0, 1), Rat(1, 4), Rat(1, 2), Rat(3, 4),
                  Rat(2, 1)}

\* numbers of cards of a two-deck shoe the counter has seen at the start
CounterSeenAtStart == {0, 30, 60}

CounterInit ==
    /\ pc = "counter_deal"
    /\ strategy = "counting" /\ hit_num = 0 /\ use_card_counting = TRUE
    /\ num_decks = 2
    /\ shuffle_threshold = 75
    /\ stats = NewStats
    /\ current_bet = 0
    /\ deck = Deck(1, 2, 1)
    /\ shoe_no = 1
    /\ counter = NewCounter
    /\ num_games = 0
    /\ i = 0
    /\ player_hand = <<>>
    /\ dealer_hand = <<>>
    /\ action = "none"
    /\ reveals = 0
    /\ seen_at_start = 0
    /\ recorded = NoRecord
    /\ submitted = <<>>
    /\ tc_call = NoCall

\* deck.deal(counter): the counter sees the next card of the shoe
CounterDeal ==
    /\ pc = "counter_deal"
    /\ \E m \in CounterSeenAtStart : counter.cards_seen < m
    /\ LET g == DealTo(Table(deck, counter, <<>>, <<>>), "player", TRUE)
       IN  /\ deck' = g.deck
           /\ counter' = g.counter
    /\ UNCHANGED <<pc, frame, player_hand, dealer_hand, action, reveals>>

\* the direct calls start on the counter as it is
CounterStart ==
    /\ pc = "counter_deal"
    /\ counter.cards_seen \in CounterSeenAtStart
    /\ pc' = "counter"
    /\ UNCHANGED <<frame, deck, counter, player_hand, dealer_hand, action,
                   reveals>>

\* counter.update(card)
CounterUpdate ==
    /\ pc = "counter"
    /\ Len(submitted) < MaxUpdates
    /\ \E card \in CounterCards :
        /\ counter' = update(counter, card)
        /\ submitted' = Append(submitted, card)
    /\ tc_call' = NoCall
    /\ UNCHANGED <<pc, config, stats, current_bet, deck, shoe_no, num_games,
                   i, player_hand, dealer_hand, action, reveals,
                   seen_at_start, recorded>>

\* counter.reset()
CounterReset ==
    /\ pc = "counter"
    /\ counter' = reset(counter)
    /\ submitted' = <<>>
    /\ tc_call' = NoCall
    /\ UNCHANGED <<pc, config, stats, current_bet, deck, shoe_no, num_games,
                   i, player_hand, dealer_hand, action, reveals,
                   seen_at_start, recorded>>

\* counter.get_true_count(d)
CounterTrueCount ==
    /\ pc = "counter"
    /\ \E d \in SuppliedDecks :
        tc_call' = [kind |-> "supplied", arg |-> d,
                    result |-> get_true_count(counter, d)]
    /\ UNCHANGED <<pc, config, stats, current_bet, deck, shoe_no, counter,
                   num_games, i, player_hand, dealer_hand, action, reveals,
                   seen_at_start, recorded, submitted>>

\* counter.get_true_count()
CounterTrueCountDefault ==
    /\ pc = "counter"
    /\ tc_call' = [kind |-> "default", arg |-> Rat(0, 1),
                   result |-> get_true_count_default(counter)]
    /\ UNCHANGED <<pc, config, stats, current_bet, deck, shoe_no, counter,
                   num_games, i, player_hand, dealer_hand, action, reveals,
                   seen_at_start, recorded, submitted>>

CounterNext ==
    \/ CounterDeal
    \/ CounterStart
    \/ CounterUpdate
    \/ CounterReset
    \/ CounterTrueCount
    \/ CounterTrueCountDefault

CounterSpec == CounterInit /\ [][CounterNext]_vars

(* ------------------------------------------------------------------ *)
(* A fresh shoe dealt to the end with a freshly reset counter          *)
(* ------------------------------------------------------------------ *)
ShoeInit ==
    /\ pc = "shoe"
    /\ strategy = "counting" /\ hit_num = 0 /\ use_card_counting = TRUE
    /\ num_decks \in 1..MaxDecks
    /\ shuffle_threshold = 75
    /\ stats = NewStats
    /\ current_bet = 0
    /\ \E k \in 1..NumShuffles : deck = Deck(1, num_decks, k)
    /\ shoe_no = 1
    /\ counter = reset(NewCounter)
    /\ num_games = 0
    /\ i = 0
    /\ player_hand = <<>>
    /\ dealer_hand = <<>>
    /\ action = "none"
    /\ reveals = 0
    /\ seen_at_start = 0
    /\ recorded = NoRecord
    /\ submitted = <<>>
    /\ tc_call = NoCall

\* deck.deal(counter); pop() of an empty list raises IndexError
ShoeDeal ==
    /\ pc = "shoe"
    /\ LET g == DealTo(Table(deck, counter, <<>>, <<>>), "player", TRUE)
       IN  /\ deck' = g.deck
           /\ counter' = g.counter
           /\ pc' = IF g.ok THEN "shoe" ELSE "exhausted"
    /\ UNCHANGED <<frame, player_hand, dealer_hand, action, reveals>>

ShoeNext == ShoeDeal

ShoeSpec == ShoeInit /\ [][ShoeNext]_vars

(* ------------------------------------------------------------------ *)
(* Properties                                                          *)
(* ------------------------------------------------------------------ *)
MaxOf(S) == CHOOSE x \in S : \A y \in S : y <= x

\* the totals of a hand with each ace counted as 1 or as 11
AceTotals(cards) == {HardValue(cards) + 10 * k : k \in 0..CountAces(cards)}

BestTotal(cards) ==
    LET fits == {t \in AceTotals(cards) : t <= 21}
    IN  IF fits # {} THEN MaxOf(fits) ELSE HardValue(cards)

\* C1: the value of a hand is the largest total <= 21 obtainable by
\* counting each ace as 1 or 11, and the total with every ace counted as 1
\* when no total is <= 21.
HandValueIsBestTotal ==
    /\ get_value(player_hand) = BestTotal(player_hand)
    /\ get_value(dealer_hand) = BestTotal(dealer_hand)

\* a hand like A,A,9: two aces, one of them reduced, value 21
HandWithReducedAce ==
    /\ pc = "hand"
    /\ Len(player_hand) = 3
    /\ CountAces(player_hand) = 2
    /\ SumValues(player_hand) = 31
    /\ get_value(player_hand) = 21

\* the outcome by the precedence: player blackjack, dealer blackjack,
\* player bust, dealer bust, then the comparison of the values
PrecedenceOutcome(ph, dh) ==
    IF is_blackjack(ph) /\ ~is_blackjack(dh)
        THEN [result |-> "win", is_blackjack |-> TRUE]
    ELSE IF is_blackjack(dh) /\ ~is_blackjack(ph)
        THEN [result |-> "loss", is_blackjack |-> FALSE]
    ELSE IF get_value(ph) > 21 THEN [result |-> "loss", is_blackjack |-> FALSE]
    ELSE IF get_value(dh) > 21 THEN [result |-> "win", is_blackjack |-> FALSE]
    ELSE IF get_value(ph) > get_value(dh)
        THEN [result |-> "win", is_blackjack |-> FALSE]
    ELSE IF get_value(ph) < get_value(dh)
        THEN [result |-> "loss", is_blackjack |-> FALSE]
    ELSE [result |-> "push", is_blackjack |-> FALSE]

\* a game of this play_games call has been recorded and its hands are
\* still those of the game
GameRecorded == pc \in {"loop", "done"} /\ i > 0

\* C2: the result recorded for a game is the result of the precedence
\* applied to the final hands of the game.
RecordedResultFollowsPrecedence ==
    GameRecorded =>
        /\ recorded.result = PrecedenceOutcome(player_hand, dealer_hand).result
        /\ recorded.is_blackjack =
               PrecedenceOutcome(player_hand, dealer_hand).is_blackjack

\* a game won because the dealer busted has been recorded
DealerBustRecorded ==
    /\ GameRecorded
    /\ is_bust(dealer_hand)
    /\ recorded.result = "win"

\* C3: Deck.deal is never called on a shoe with no cards left.
NeverDealFromEmptyShoe == pc # "exhausted"

\* C4: an action other than 'hit' or 'stand' ends the round at once: the
\* strategy is not asked again and the round does not continue.
InvalidActionNotRetried ==
    [][(pc = "player_act" /\ action \notin {"hit", "stand"})
          => pc' \notin {"player_turn", "player_act", "dealer_turn"}]_vars

\* C5: every round ends resolved after finitely many deals: each pass of
\* the player's loop deals a card from the shoe, and no round ends on a
\* failed deal instead of a resolution.
RoundAlwaysResolves ==
    /\ [][(pc = "player_act" /\ pc' = "player_turn")
             => Len(deck'.cards) < Len(deck.cards)]_vars
    /\ [][(pc \in {"play", "player_act", "dealer_loop"})
             => pc' # "exhausted"]_vars

RECURSIVE SumHiLo(_)
SumHiLo(S) ==
    IF S = {} THEN 0
    ELSE LET c == CHOOSE x \in S : TRUE
         IN  HiLo(c.rank) + SumHiLo(S \ {c})

\* C6: with a counter, cards_seen is the number of distinct cards observed
\* and running_count the sum of their Hi-Lo tags; a reset (made with every
\* new shoe) leaves running_count 0, cards_seen 0 and no observed card.
CounterCountsEachCardOnce ==
    /\ [](use_card_counting =>
            /\ counter.cards_seen = Cardinality(counter.seen_cards)
            /\ counter.running_count = SumHiLo(counter.seen_cards))
    /\ [][(use_card_counting /\ shoe_no' # shoe_no)
             => /\ counter'.running_count = 0
                /\ counter'.cards_seen = 0
                /\ counter'.seen_cards = {}]_vars

\* the hole card has been shown to the counter twice on a second shoe
HoleShownTwiceAfterReset ==
    /\ use_card_counting
    /\ shoe_no = 2
    /\ reveals = 2
    /\ dealer_hand[2] \in counter.seen_cards

\* C7: the initial deal takes the four top cards in the order player,
\* dealer up-card, player, dealer hole-card and hands the first three, and
\* not the hole card, to the counter.
InitialDealOrder ==
    [][(pc = "play" /\ pc' = "dealt") =>
          LET n == Len(deck.cards)
          IN  /\ player_hand' = <<deck.cards[n], deck.cards[n - 2]>>
              /\ dealer_hand' = <<deck.cards[n - 1], deck.cards[n - 3]>>
              /\ deck'.cards = SubSeq(deck.cards, 1, n - 4)
              /\ use_card_counting =>
                    /\ counter'.cards_seen = counter.cards_seen + 3
                    /\ counter'.seen_cards = counter.seen_cards \cup
                          {deck.cards[n], deck.cards[n - 1], deck.cards[n - 2]}
                    /\ deck.cards[n - 3] \notin counter'.seen_cards]_vars

\* right after an initial deal with a counter: three cards seen, hole unseen
HoleUnseenAfterInitialDeal ==
    /\ pc = "dealt"
    /\ use_card_counting
    /\ counter.cards_seen = seen_at_start + 3
    /\ dealer_hand[2] \notin counter.seen_cards

\* C8: in a round resolved by a natural, a dealer bust or a showdown the
\* hole card is counted once, at the first reveal; the reveal repeated at the
\* showdown changes nothing, and when the round is resolved cards_seen has
\* grown by the number of cards dealt in the round.
HoleCountedOnceAtReveal ==
    /\ []((use_card_counting /\ pc = "record" /\ ~is_bust(player_hand)) =>
            /\ dealer_hand[2] \in counter.seen_cards
            /\ counter.cards_seen =
                  seen_at_start + Len(player_hand) + Len(dealer_hand))
    /\ [][(use_card_counting /\ reveals' = reveals + 1) =>
            IF reveals = 0
            THEN /\ dealer_hand[2] \notin counter.seen_cards
                 /\ counter'.cards_seen = counter.cards_seen + 1
                 /\ counter'.seen_cards = counter.seen_cards \cup {dealer_hand[2]}
            ELSE counter' = counter]_vars

\* a showdown with a counter: the dealer drew, the hole card was shown twice
ShowdownResolvedWithCounter ==
    /\ pc = "record"
    /\ use_card_counting
    /\ reveals = 2
    /\ Len(dealer_hand) >= 3
    /\ counter.cards_seen = seen_at_start + Len(player_hand) + Len(dealer_hand)

\* C9: a natural after the initial deal resolves the round directly: the
\* strategy is never asked, no card is dealt, both hands keep 2 cards.
NaturalResolvesDirectly ==
    /\ [][(pc = "dealt" /\ (is_blackjack(player_hand) \/ is_blackjack(dealer_hand)))
            => /\ pc' = "record"
               /\ deck' = deck
               /\ player_hand' = player_hand
               /\ dealer_hand' = dealer_hand
               /\ action' = "none"]_vars
    /\ []((pc \in {"record", "loop", "done"} /\ Len(dealer_hand) >= 2
            /\ (is_blackjack(player_hand) \/ is_blackjack(dealer_hand)))
            => /\ action = "none"
               /\ Len(player_hand) = 2
               /\ Len(dealer_hand) = 2)

\* a round resolved by a dealer natural alone
DealerNaturalResolved ==
    /\ pc = "record"
    /\ is_blackjack(dealer_hand)
    /\ ~is_blackjack(player_hand)
    /\ action = "none"
    /\ reveals = 1

\* C10: a hit that busts the player ends the round at once: the strategy is
\* not asked again, the dealer stays at 2 cards and draws nothing, and a loss
\* with the bust flag is recorded.
PlayerBustEndsRound ==
    /\ [][(pc = "player_act" /\ action = "hit" /\ is_bust(player_hand'))
            => /\ pc' = "record"
               /\ dealer_hand' = dealer_hand]_vars
    /\ [][(pc = "record" /\ is_bust(player_hand))
            => /\ Len(dealer_hand) = 2
               /\ reveals = 0
               /\ recorded'.result = "loss"
               /\ recorded'.is_bust
               /\ stats'.losses = stats.losses + 1
               /\ stats'.busts = stats.busts + 1
               /\ dealer_hand' = dealer_hand]_vars

\* a player bust has been recorded as a loss with the bust flag
PlayerBustRecorded ==
    /\ GameRecorded
    /\ is_bust(player_hand)
    /\ Len(dealer_hand) = 2
    /\ recorded.result = "loss"
    /\ recorded.is_bust

\* C11: in dealer_turn the dealer draws a card exactly while its hand value is
\* below 17 and stops on 17 or more, a soft 17 included; a round that reaches
\* the showdown has a dealer value in 17..21 and a player value of at most 21;
\* a dealer bust is recorded as a win of the player
DealerDrawsBelow17 ==
    /\ [](pc = "showdown" =>
            /\ BestTotal(dealer_hand) \in 17..21
            /\ BestTotal(player_hand) <= 21)
    /\ [][pc = "dealer_loop" =>
            IF BestTotal(dealer_hand) < 17
            THEN \/ pc' = "exhausted"
                 \/ /\ Len(dealer_hand') = Len(dealer_hand) + 1
                    /\ Len(deck'.cards) = Len(deck.cards) - 1
                    /\ pc' = "dealer_loop"
            ELSE /\ dealer_hand' = dealer_hand
                 /\ deck' = deck
                 /\ pc' \in {"showdown", "record"}]_vars
    /\ [][pc = "record" /\ BestTotal(dealer_hand) > 21 =>
            /\ recorded'.result = "win"
            /\ stats'.wins = stats.wins + 1
            /\ stats'.losses = stats.losses]_vars

\* the dealer stood on a soft 17 and the round went to the showdown
DealerStoodOnSoft17 ==
    /\ pc = "showdown"
    /\ BestTotal(dealer_hand) = 17
    /\ \E k \in 1..Len(dealer_hand) : dealer_hand[k].rank = "A"
    /\ HardValue(dealer_hand) = 7

\* the counter right after CardCounter.reset
CounterIsReset ==
    /\ counter.running_count = 0
    /\ counter.cards_seen = 0
    /\ counter.seen_cards = {}

\* C12: play_games starts with a fresh full shoe and a reset counter; at the
\* start of a round the shoe is replaced by a new shoe of num_decks * 52 cards
\* and the counter reset exactly when the dealt share of the shoe has reached
\* shuffle_threshold percent, otherwise shoe and counter carry over unchanged;
\* the shoe is never replaced in the middle of a round
ReshuffleOnlyBetweenRounds ==
    /\ [][pc = "idle" =>
            /\ shoe_no' = shoe_no + 1
            /\ Len(deck'.cards) = num_decks * 52
            /\ deck'.total_cards = num_decks * 52
            /\ use_card_counting => CounterIsReset']_vars
    /\ [][pc = "loop" /\ pc' = "play" =>
            IF (deck.total_cards - Len(deck.cards)) * 100
                   >= shuffle_threshold * deck.total_cards
            THEN /\ shoe_no' = shoe_no + 1
                 /\ Len(deck'.cards) = num_decks * 52
                 /\ deck'.total_cards = num_decks * 52
                 /\ \A k \in 1..Len(deck'.cards) : deck'.cards[k].shoe = shoe_no'
                 /\ use_card_counting => CounterIsReset'
            ELSE /\ shoe_no' = shoe_no
                 /\ deck' = deck
                 /\ counter' = counter]_vars
    /\ [][pc \notin {"idle", "loop"} =>
            /\ shoe_no' = shoe_no
            /\ deck'.total_cards = deck.total_cards
            /\ Len(deck'.cards) <= Len(deck.cards)
            /\ deck'.cards = SubSeq(deck.cards, 1, Len(deck'.cards))]_vars

\* a later round of a counting run starts on the second shoe: the first one
\* was dealt past the threshold, the new one is full and the counter reset
ReshuffledAtThreshold ==
    /\ pc = "play"
    /\ use_card_counting
    /\ i > 0
    /\ shoe_no = 2
    /\ Len(deck.cards) = num_decks * 52
    /\ CounterIsReset
    /\ shuffle_threshold = 75
    /\ stats.total_games = i

\* the bet of the ramp for a true count of num / den (den > 0)
RampBet(num, den) ==
    IF num < 0 THEN 0
    ELSE IF num < den THEN 1
    ELSE IF num < 2 * den THEN 2
    ELSE IF num < 3 * den THEN 5
    ELSE IF num < 4 * den THEN 10
    ELSE IF num < 5 * den THEN 25
    ELSE 50

\* true counts -2, -7/4, ..., 6 against which the ramp is compared
SampleCounts == {Rat(n, 4) : n \in (0 - 8)..24}

\* C13: the bet of a round played with a counter is the ramp value of the
\* true count running_count / max(cards_remaining / 52, 0.5) taken at the
\* start of the round, after any reshuffle (below 0: 0, below 1: 1, below
\* 2: 2, below 3: 5, below 4: 10, below 5: 25, otherwise 50); the bet never
\* decreases as the true count grows and is one of 0, 1, 2, 5, 10, 25, 50
BetIsRampOfTrueCount ==
    use_card_counting =>
        /\ current_bet \in {0, 1, 2, 5, 10, 25, 50}
        /\ pc = "play" =>
            LET left == Len(deck.cards)
                den  == IF left > 26 THEN left ELSE 26
                num  == counter.running_count * 52
            IN  /\ current_bet = RampBet(num, den)
                /\ \A t \in SampleCounts :
                     /\ num * t.d <= t.n * den => current_bet <= get_bet_size(t)
                     /\ t.n * den <= num * t.d => get_bet_size(t) <= current_bet

\* a round starts at a true count between 4 and 5 that is not a whole number
\* and is bet at 25
BetAtFractionalCount ==
    /\ pc = "play"
    /\ use_card_counting
    /\ current_bet = 25
    /\ Len(deck.cards) > 26
    /\ (counter.running_count * 52) % Len(deck.cards) # 0

\* the player holds a natural and the dealer does not
PlayerNaturalOnly ==
    /\ Len(player_hand) = 2 /\ BestTotal(player_hand) = 21
    /\ ~(Len(dealer_hand) = 2 /\ BestTotal(dealer_hand) = 21)

\* C14: recording a round with bet b changes the bankroll by +b for a win
\* without a natural, +1.5 b for a win with a natural of the player, -b for
\* a loss and 0 for a push (the model counts the bankroll in halves); a round
\* with bet 0 is played and counted in total_games and in wins, losses or
\* pushes like any other and leaves bankroll and total wagered unchanged
RecordChangesBankrollByBet ==
    [][pc = "record" =>
        LET b == current_bet
            r == recorded'
        IN  /\ r.bet = b
            /\ r.result \in {"win", "loss", "push"}
            /\ r.is_blackjack <=> PlayerNaturalOnly
            /\ stats'.total_games = stats.total_games + 1
            /\ stats'.total_bet = stats.total_bet + b
            /\ stats'.wins = stats.wins + (IF r.result = "win" THEN 1 ELSE 0)
            /\ stats'.losses = stats.losses + (IF r.result = "loss" THEN 1 ELSE 0)
            /\ stats'.pushes = stats.pushes + (IF r.result = "push" THEN 1 ELSE 0)
            /\ r.result = "win" /\ ~r.is_blackjack =>
                   stats'.bankroll = stats.bankroll + 2 * b
            /\ r.result = "win" /\ r.is_blackjack =>
                   stats'.bankroll = stats.bankroll + 3 * b
            /\ r.result = "loss" => stats'.bankroll = stats.bankroll - 2 * b
            /\ r.result = "push" => stats'.bankroll = stats.bankroll
            /\ b = 0 => /\ stats'.bankroll = stats.bankroll
                        /\ stats'.total_bet = stats.total_bet]_vars

\* a natural of the player has been paid one and a half times a bet of
\* more than one unit
NaturalPaidThreeToTwo ==
    /\ GameRecorded
    /\ recorded.result = "win"
    /\ recorded.is_blackjack
    /\ recorded.bet > 1

\* value of an up-card: 2..10 by its number, 10 for a face card, 11 for an ace
UpCardValue(card) ==
    LET k == CHOOSE n \in 1..13 : ranks[n] = card.rank
    IN  IF k <= 9 THEN k + 1 ELSE IF k <= 12 THEN 10 ELSE 11

\* the action of the basic strategy chart
ChartAction(cards, up) ==
    LET total == BestTotal(cards)
        low   == HardValue(cards)
        soft  == total # low /\ total <= 21
        d     == UpCardValue(up)
    IN  IF soft
        THEN IF total >= 19 \/ (total = 18 /\ d \notin {9, 10, 11})
             THEN "stand" ELSE "hit"
        ELSE IF \/ total >= 17
                \/ total = 12 /\ d \in 4..6
                \/ total \in 13..16 /\ d \in 2..6
             THEN "stand" ELSE "hit"

\* C15: basic_strategy returns the action of the basic strategy chart for
\* every player hand and dealer up-card: a hand is soft when its value differs
\* from its total with every ace as 1 and is at most 21; soft 19 or more
\* stands, soft 18 hits against 9, 10 and ace and stands otherwise, a lower
\* soft hand hits; hard 17 or more stands, hard 11 or less hits, hard 12
\* stands against 4 to 6, hard 13 to 16 stands against 2 to 6, else hits
BasicStrategyFollowsChart ==
    pc = "chart" /\ action # "none" =>
        action = ChartAction(player_hand, dealer_hand[1])

\* basic_strategy answered hit for a soft 18 against a dealer 9
Soft18HitsAgainstNine ==
    /\ pc = "chart"
    /\ action = "hit"
    /\ BestTotal(player_hand) = 18
    /\ HardValue(player_hand) = 8
    /\ dealer_hand[1].rank = "9"

\* the true count num / den is at least k, at most k
CountAtLeast(num, den, k) == num >= k * den

CountAtMost(num, den, k) == num <= k * den

\* the action of the index-play table for a hard total 12..16 against a
\* dealer value d at the true count num / den (den > 0)
IndexTableAction(total, d, num, den) ==
    LET stand_from == [c \in {<<16, 9>>, <<16, 10>>, <<16, 11>>, <<15, 10>>,
                              <<12, 2>>, <<12, 3>>} |->
                         CASE c = <<16, 9>> -> 5
                           [] c = <<15, 10>> -> 4
                           [] c = <<12, 2>> -> 3
                           [] c = <<12, 3>> -> 2
                           [] OTHER -> 0]
        hit_upto   == [c \in {<<13, 2>>, <<13, 3>>, <<12, 4>>, <<12, 5>>,
                              <<12, 6>>} |->
                         CASE c = <<13, 3>> -> 0 - 2
                           [] c = <<12, 4>> -> 0
                           [] c = <<12, 5>> -> 0 - 5
                           [] OTHER -> 0 - 1]
        cell == <<total, d>>
    IN  IF cell \in DOMAIN stand_from
        THEN IF CountAtLeast(num, den, stand_from[cell]) THEN "stand" ELSE "hit"
        ELSE IF cell \in DOMAIN hit_upto
        THEN IF CountAtMost(num, den, hit_upto[cell]) THEN "hit" ELSE "stand"
        ELSE IF d \in 2..6 /\ total \in 13..16 THEN "stand"
        ELSE "hit"

\* the player's hand is a hard 12..16
HardStiffHand ==
    /\ BestTotal(player_hand) \in 12..16
    /\ BestTotal(player_hand) = HardValue(player_hand)

\* C16: for every hard player total 12..16, dealer up-card and state of the
\* counter and the shoe, card_counting_strategy returns the action of the
\* index-play table at the true count running_count / max(cards_remaining /
\* 52, 0.5), not rounded, taken from the counter and the shoe as they are at
\* that decision, a card drawn by an earlier hit of the round included
CountingStrategyFollowsIndexTable ==
    pc = "count_act" /\ strategy = "counting" /\ HardStiffHand =>
        LET left == Len(deck.cards)
        IN  action = IndexTableAction(BestTotal(player_hand),
                                      UpCardValue(dealer_hand[1]),
                                      counter.running_count * 52,
                                      IF left > 26 THEN left ELSE 26)

\* after a hit that the counter saw, a hard 16 against a dealer 9 stands
\* where the basic chart hits
IndexPlayAfterHit ==
    /\ pc = "count_act"
    /\ strategy = "counting"
    /\ Len(player_hand) = 3
    /\ player_hand[3] \in counter.seen_cards
    /\ HardStiffHand
    /\ BestTotal(player_hand) = 16
    /\ dealer_hand[1].rank = "9"
    /\ action = "stand"
    /\ ChartAction(player_hand, dealer_hand[1]) = "hit"

\* the Hi-Lo tag of a card: +1 for 2..6, -1 for 10, J, Q, K, A, 0 for 7, 8, 9
HiLoTag(card) ==
    LET k == CHOOSE n \in 1..13 : ranks[n] = card.rank
    IN  IF k <= 5 THEN 1 ELSE IF k <= 8 THEN 0 ELSE 0 - 1

\* C17: CardCounter.update counts a card identity once: a later update with
\* a card already observed (since the last reset) leaves running_count,
\* cards_seen and the observed set unchanged, and a card not yet observed is
\* counted even when another card of its rank and suit has been
UpdateIdempotentPerIdentity ==
    [][pc = "counter" /\ Len(submitted') = Len(submitted) + 1 =>
        LET card == submitted'[Len(submitted')]
        IN  IF card \in counter.seen_cards
            THEN /\ counter'.running_count = counter.running_count
                 /\ counter'.cards_seen = counter.cards_seen
                 /\ counter'.seen_cards = counter.seen_cards
            ELSE /\ counter'.running_count = counter.running_count + HiLoTag(card)
                 /\ counter'.cards_seen = counter.cards_seen + 1
                 /\ counter'.seen_cards = counter.seen_cards \cup {card}]_vars

\* the five of spades of deck 1 was passed twice and the five of spades of
\* deck 2 once to a fresh counter: two cards are counted
TwinCardsBothCounted ==
    /\ pc = "counter"
    /\ Len(submitted) = 3
    /\ submitted[1] = submitted[2]
    /\ submitted[3] # submitted[1]
    /\ submitted[3].rank = submitted[1].rank
    /\ submitted[3].suit = submitted[1].suit
    /\ submitted[1].rank = "5"
    /\ counter.cards_seen = 2
    /\ counter.running_count = 2
    /\ counter.seen_cards = {submitted[1], submitted[3]}

\* the rationals a and b are equal
RatEq(a, b) == a.n * b.d = b.n * a.d

\* running_count / (p / q) for a divisor p / q above 0
CountOver(c, p, q) == Rat(c.running_count * q, p)

\* the greater of the rational d and one half
AtLeastHalf(d) == IF 2 * d.n >= d.d THEN d ELSE Rat(1, 2)

\* the result of get_true_count() with the divisor estimated from cards_seen
DefaultTrueCount ==
    LET d == AtLeastHalf(Rat(52 - counter.cards_seen, 52))
    IN  CountOver(counter, d.n, d.d)

\* C20 as stated: get_true_count divides by max(d, 0.5) for every supplied
\* decks_remaining d, 0 < d < 0.5 included, and by
\* max((52 - cards_seen) / 52, 0.5) when no argument is given
TrueCountDivisorAtLeastHalf ==
    /\ tc_call.kind = "supplied" =>
         LET d == AtLeastHalf(tc_call.arg)
         IN  RatEq(tc_call.result, CountOver(counter, d.n, d.d))
    /\ tc_call.kind = "default" => RatEq(tc_call.result, DefaultTrueCount)

\* C20: get_true_count divides by 0.5 for a supplied decks_remaining of 0 or
\* less and by the supplied value itself when it is above 0, also when it is
\* below 0.5; with no argument it divides by max((52 - cards_seen) / 52, 0.5)
TrueCountDivisorAsSupplied ==
    /\ tc_call.kind = "supplied" =>
         LET d == IF tc_call.arg.n <= 0 THEN Rat(1, 2) ELSE tc_call.arg
         IN  RatEq(tc_call.result, CountOver(counter, d.n, d.d))
    /\ tc_call.kind = "default" => RatEq(tc_call.result, DefaultTrueCount)

\* get_true_count(0.25) on a running count other than 0 returned four times
\* the running count
TrueCountOfQuarterDeck ==
    /\ pc = "counter"
    /\ tc_call.kind = "supplied"
    /\ RatEq(tc_call.arg, Rat(1, 4))
    /\ counter.running_count # 0
    /\ RatEq(tc_call.result, Rat(4 * counter.running_count, 1))

\* C18: for every number of decks and shuffle order, a freshly reset counter
\* that has been handed every card of a fresh shoe by Deck.deal has a running
\* count of 0 and has seen num_decks * 52 cards
CountBalancedOverWholeShoe ==
    pc \in {"shoe", "exhausted"} /\ Len(deck.cards) = 0 =>
        /\ counter.running_count = 0
        /\ counter.cards_seen = num_decks * 52
        /\ Cardinality(counter.seen_cards) = num_decks * 52

\* a two-deck shoe has been dealt to its last card and the counter, which
\* saw all 104 cards, is back at 0
TwoDeckShoeCountedOut ==
    /\ pc = "shoe"
    /\ num_decks = 2
    /\ Len(deck.cards) = 0
    /\ counter.cards_seen = 104
    /\ counter.running_count = 0

\* C19: a shoe always has between 0 and total_cards cards left and its
\* total_cards never changes; a successful deal lowers cards_remaining by
\* exactly 1; penetration() never decreases from one deal to the next, is 0
\* for a fresh shoe and exactly 100 when no card is left
ShoeCountsAndPenetration ==
    /\ [](pc \in {"shoe", "exhausted"} =>
            /\ cards_remaining(deck) \in 0..deck.total_cards
            /\ deck.total_cards = num_decks * 52
            /\ cards_remaining(deck) = deck.total_cards =>
                   RatEq(penetration(deck), Rat(0, 1))
            /\ cards_remaining(deck) = 0 =>
                   RatEq(penetration(deck), Rat(100, 1)))
    /\ [][pc = "shoe" =>
            /\ deck'.total_cards = deck.total_cards
            /\ RatLeq(penetration(deck), penetration(deck'))
            /\ IF pc' = "shoe"
               THEN cards_remaining(deck') = cards_remaining(deck) - 1
               ELSE cards_remaining(deck) = 0 /\ deck' = deck]_vars

\* the deal on an empty shoe failed: no card is left and the penetration
\* is 100
EmptyShoeFullyPenetrated ==
    /\ pc = "exhausted"
    /\ cards_remaining(deck) = 0
    /\ deck.total_cards = 52
    /\ RatEq(penetration(deck), Rat(100, 1))

\* C21: get_true_count called with decks_remaining of 0 or less does not
\* divide by zero: it divides by 0.5, returns running_count / 0.5 and leaves
\* the counter as it was
DegenerateDecksRemainingIsHalf ==
    /\ [](tc_call.kind = "supplied" /\ tc_call.arg.n <= 0 =>
            /\ tc_call.result.d # 0
            /\ RatEq(tc_call.result, Rat(2 * counter.running_count, 1)))
    /\ [][pc = "counter" /\ tc_call'.kind = "supplied" /\ tc_call' # tc_call =>
            counter' = counter]_vars

\* get_true_count(0) on a running count other than 0 returned twice the
\* running count
TrueCountOfZeroDecks ==
    /\ pc = "counter"
    /\ tc_call.kind = "supplied"
    /\ tc_call.arg.n = 0
    /\ counter.running_count # 0
    /\ RatEq(tc_call.result, Rat(2 * counter.running_count, 1))

\* the round as the policies see it, with the dealer's hole card replaced by
\* a card of rank r
WithHoleCard(r) == [Game EXCEPT !.dealer_hand[2] = Card(0, 2, "H", r)]

\* C22: during the player turn the action of each shipped policy does not
\* depend on the dealer's hole card: with the player hand, the up-card, the
\* shoe and the counter as they are and any other hole card, the policy of
\* the bot returns the action it returned
PolicyIgnoresHoleCard ==
    pc = "count_act" =>
        \A r \in {ranks[k] : k \in 1..13} : get_action(WithHoleCard(r)) = {action}

\* a hard 14 was hit against a king whose hole card is a 6, against which
\* as an up-card the same policy stands
HitAgainstKingOverSix ==
    /\ pc = "count_act"
    /\ strategy \in {"basic", "counting"}
    /\ HardStiffHand
    /\ BestTotal(player_hand) = 14
    /\ dealer_hand[1].rank = "K"
    /\ dealer_hand[2].rank = "6"
    /\ action = "hit"
    /\ get_action([Game EXCEPT !.dealer_hand = <<dealer_hand[2], dealer_hand[1]>>])
           = {"stand"}

\* C23: a call of num_strategy, basic_strategy or card_counting_strategy
\* changes nothing: the player hand, the dealer hand, the shoe and the
\* counter (running_count, cards_seen, observed set) are after the call what
\* they were before, and the value returned is 'hit' or 'stand'
PolicyCallChangesNothing ==
    [][pc = "count_turn" =>
        /\ player_hand' = player_hand
        /\ dealer_hand' = dealer_hand
        /\ deck' = deck
        /\ counter'.running_count = counter.running_count
        /\ counter'.cards_seen = counter.cards_seen
        /\ counter'.seen_cards = counter.seen_cards
        /\ action' \in {"hit", "stand"}]_vars

\* card_counting_strategy has answered on a third card, with a counter that
\* has seen cards and a shoe that has lost the card of the hit
CountingPolicyAnsweredAfterHit ==
    /\ pc = "count_act"
    /\ strategy = "counting"
    /\ Len(player_hand) = 3
    /\ counter.cards_seen > 0
    /\ Len(deck.cards) \in {12, 38, 51}
    /\ action \in {"hit", "stand"}

\* the next step of the round calls Deck.deal and the shoe cannot serve it
DealOnEmptyShoe ==
    \/ pc = "play" /\ Len(deck.cards) < 4
    \/ pc = "player_act" /\ action = "hit" /\ Len(deck.cards) = 0
    \/ pc = "dealer_loop" /\ dealer_must_hit(dealer_hand) /\ Len(deck.cards) = 0

\* C24: a deal on an empty shoe is a fatal, unrecovered fault: the failing
\* deal gives the counter nothing (the counter gains only the cards that
\* were still dealt before it), the failure leaves play_games, no outcome is
\* recorded for the interrupted round, no later round is played, and the
\* statistics are those of the rounds completed before the fault
EmptyShoeFaultIsFatal ==
    /\ [][DealOnEmptyShoe =>
            /\ pc' = "exhausted"
            /\ stats' = stats
            /\ recorded' = recorded
            /\ i' = i
            /\ counter'.cards_seen = counter.cards_seen
                   + (IF use_card_counting THEN Len(deck.cards) ELSE 0)
            /\ (Len(deck.cards) = 0 => counter' = counter)
            /\ Len(deck'.cards) = 0]_vars
    /\ [][pc # "exhausted"]_vars
    /\ [](pc = "exhausted" =>
            /\ i < num_games
            /\ stats.total_games = i
            /\ stats.wins + stats.losses + stats.pushes = i)

\* a run of a counting bot stopped by the fault after completed rounds, with
\* more than one round still due
FaultAfterCompletedRounds ==
    /\ pc = "exhausted"
    /\ use_card_counting
    /\ i >= 2
    /\ i + 1 < num_games
    /\ stats.total_games = i

\* the cells of the hard 12..16 rows whose play carries a true-count condition
CountConditionedCell ==
    /\ HardStiffHand
    /\ LET total == BestTotal(player_hand)
           up == UpCardValue(dealer_hand[1])
       IN  \/ total = 16 /\ up \in {9, 10, 11}
           \/ total = 15 /\ up = 10
           \/ total = 13 /\ up \in {2, 3}
           \/ total = 12 /\ up \in {2, 3, 4, 5, 6}

\* C26: whatever the true count, card_counting_strategy answers as
\* basic_strategy on every soft hand, every hard total >= 17 or <= 11 and
\* every hard 12..16 cell without a true-count condition; the two can differ
\* only on 16 vs 9/10/A, 15 vs 10, 13 vs 2/3 and 12 vs 2..6
CountingAgreesWithBasicOffIndexCells ==
    /\ strategy = "counting"
    /\ pc \in {"count_turn", "count_act"}
    /\ ~CountConditionedCell
    => card_counting_strategy(Game, counter) = basic_strategy(Game)

\* a soft 17 is hit by the counting strategy at a true count of +5 or more,
\* as the basic strategy hits it
SoftSeventeenHitAtHighCount ==
    /\ pc = "count_act"
    /\ strategy = "counting"
    /\ BestTotal(player_hand) = 17
    /\ HardValue(player_hand) = 7
    /\ TcGeq(get_true_count(counter, decks_remaining_of(Len(deck.cards))), 5)
    /\ action = "hit"
    /\ basic_strategy(Game) = "hit"

\* C27: after any sequence of recorded rounds wins + losses + pushes =
\* total_games, blackjacks <= wins, busts <= losses, -total_bet <= bankroll
\* <= 1.5 * total_bet (the bankroll is held in halves), blackjacks grows by
\* one exactly at the rounds where the player had a natural and the dealer
\* had none, and busts by one exactly at the rounds where the player busted
StatsCountersAgree ==
    /\ [](/\ stats.wins + stats.losses + stats.pushes = stats.total_games
          /\ stats.blackjacks <= stats.wins
          /\ stats.busts <= stats.losses
          /\ 0 - 2 * stats.total_bet <= stats.bankroll
          /\ stats.bankroll <= 3 * stats.total_bet)
    /\ [][pc = "record" =>
            /\ stats'.blackjacks = stats.blackjacks
                   + (IF BestTotal(player_hand) = 21 /\ Len(player_hand) = 2
                         /\ ~(BestTotal(dealer_hand) = 21 /\ Len(dealer_hand) = 2)
                      THEN 1 ELSE 0)
            /\ stats'.busts = stats.busts
                   + (IF HardValue(player_hand) > 21 THEN 1 ELSE 0)]_vars
    /\ [][pc # "record" =>
            /\ stats'.blackjacks = stats.blackjacks
            /\ stats'.busts = stats.busts]_vars

\* statistics after rounds of every kind: a natural, a player bust, a push,
\* a loss without a bust and a win without a natural
StatsAfterEveryKindOfRound ==
    /\ GameRecorded
    /\ stats.blackjacks >= 1
    /\ stats.busts >= 1
    /\ stats.pushes >= 1
    /\ stats.losses > stats.busts
    /\ stats.wins > stats.blackjacks
    /\ stats.total_bet > stats.total_games

\* the number of cards dealt from the current shoe
DealtFromShoe == deck.total_cards - Len(deck.cards)

\* the cards dealt from the current shoe that the counter has not counted
UnseenDealt == DealtFromShoe - counter.cards_seen

\* the hole card of the round in play is still face down for the counter
HoleFaceDown ==
    /\ pc \notin {"idle", "loop", "done"}
    /\ Len(dealer_hand) >= 2
    /\ dealer_hand[2] \notin counter.seen_cards

\* the dealt cards the counter has not counted, the face-down hole card of
\* the round in play left out
UnseenSettled == UnseenDealt - (IF HoleFaceDown THEN 1 ELSE 0)

AllShoeCards == {CanonicalCard(shoe_no, pos) : pos \in 1..(num_decks * 52)}

\* the cards still in the shoe, and the cards on the table
InShoe == {deck.cards[k] : k \in 1..Len(deck.cards)}

OnTable ==
    {player_hand[k] : k \in 1..Len(player_hand)}
        \cup {dealer_hand[k] : k \in 1..Len(dealer_hand)}

\* C29: within the life of a shoe cards are conserved: the shoe holds cards
\* of its own num_decks * 52 and none twice, so that with the cards that left
\* it they make total_cards; a card in a hand has left the shoe and is in
\* one place of one hand only; the observed set of the counter holds only
\* cards that left the current shoe; and a card leaves the shoe only from
\* the top, into a hand, and never comes back
CardsConservedInShoe ==
    /\ [](pc # "idle" =>
            LET in_shoe == InShoe
                on_table == OnTable
                dealt == AllShoeCards \ in_shoe
            IN  /\ deck.total_cards = num_decks * 52
                /\ Cardinality(in_shoe) = Len(deck.cards)
                /\ Len(deck.cards) + Cardinality(dealt) = deck.total_cards
                /\ on_table \subseteq dealt
                /\ Cardinality(on_table) = Len(player_hand) + Len(dealer_hand)
                /\ counter.seen_cards \subseteq dealt)
    /\ [][shoe_no' = shoe_no =>
            LET left == Len(deck'.cards)
                out == {deck.cards[k] : k \in (left + 1)..Len(deck.cards)}
            IN  /\ left <= Len(deck.cards)
                /\ deck'.cards = SubSeq(deck.cards, 1, left)
                /\ out # {} =>
                      /\ out \cap OnTable = {}
                      /\ OnTable' = OnTable \cup out]_vars

\* a round on a replaced shoe, resolved after the hole card was revealed: the
\* counter holds cards of the new shoe only, the hole card of this round
\* among them
RevealedRoundOnReplacedShoe ==
    /\ pc = "record"
    /\ reveals > 0
    /\ shoe_no >= 2
    /\ use_card_counting
    /\ Cardinality(OnTable) >= 5
    /\ Cardinality(counter.seen_cards) > Cardinality(OnTable)
    /\ dealer_hand[2] \in counter.seen_cards

\* C30: with a counter the first round of a run and the first round after
\* every shoe replacement are played with bet 1 (the counter was just reset);
\* without a counter every round is played with bet 1; the bet of a round is
\* set before its first card is dealt and stays as set until the next round
\* is started
FirstRoundOnShoeBetsOne ==
    /\ [](pc = "play" =>
            /\ player_hand = <<>> /\ dealer_hand = <<>>
            /\ Len(deck.cards) = deck.total_cards => current_bet = 1)
    /\ [](~use_card_counting /\ pc \notin {"idle", "loop", "done"} =>
            current_bet = 1)
    /\ [][pc = "loop" /\ pc' = "play" /\ (i = 0 \/ shoe_no' # shoe_no) =>
            current_bet' = 1]_vars
    /\ [][pc # "loop" => current_bet' = current_bet]_vars

\* the first round on a replaced shoe is about to be dealt at bet 1, after a
\* round that was played at a larger bet
BetBackToOneOnNewShoe ==
    /\ pc = "play"
    /\ use_card_counting
    /\ shoe_no >= 2
    /\ Len(deck.cards) = deck.total_cards
    /\ recorded.bet > 1
    /\ current_bet = 1

(* ------------------------------------------------------------------ *)
(* Successive calls of play_games on one bot                            *)
(* ------------------------------------------------------------------ *)
\* largest num_games of a call when the bot is used for two calls
MaxRunGames == 2

\* a play_games that starts from fresh statistics
PlayGamesOnFreshStats ==
    /\ pc = "idle" \/ (pc = "done" /\ stats.total_games = num_games)
    /\ \E n \in 1..MaxRunGames, k \in 1..NumShuffles :
        /\ num_games' = n
        /\ deck' = Deck(shoe_no + 1, num_decks, k)
    /\ shoe_no' = shoe_no + 1
    /\ counter' = IF use_card_counting THEN reset(counter) ELSE counter
    /\ i' = 0
    /\ stats' = NewStats
    /\ pc' = "loop"
    /\ UNCHANGED <<config, current_bet, player_hand, dealer_hand,
                   action, reveals, seen_at_start, recorded, submitted,
                   tc_call>>

\* play_games(n) up to the loop, on a new bot or on the bot whose first call
\* has returned: self.stats is the object built by __init__
PlayGamesOnBot ==
    /\ pc = "idle" \/ (pc = "done" /\ stats.total_games = num_games)
    /\ \E n \in 1..MaxRunGames, k \in 1..NumShuffles :
        /\ num_games' = n
        /\ deck' = Deck(shoe_no + 1, num_decks, k)
    /\ shoe_no' = shoe_no + 1
    /\ counter' = IF use_card_counting THEN reset(counter) ELSE counter
    /\ i' = 0
    /\ pc' = "loop"
    /\ UNCHANGED <<config, stats, current_bet, player_hand, dealer_hand,
                   action, reveals, seen_at_start, recorded, submitted,
                   tc_call>>

RunsNext ==
    \/ PlayGamesOnBot
    \/ StartGame
    \/ Finish
    \/ DealInitial
    \/ Natural
    \/ EnterPlayerTurn
    \/ GetAction
    \/ PlayerHit
    \/ PlayerStand
    \/ PlayerInvalid
    \/ DealerReveal
    \/ DealerDraw
    \/ DealerStop
    \/ Showdown
    \/ RecordGameResult

RunsSpec == Init /\ [][RunsNext]_vars

\* the counters of GameStats that only ever count up
StatsCounters(s) ==
    <<s.total_games, s.wins, s.losses, s.pushes, s.blackjacks, s.busts,
      s.total_bet>>

\* C25: a run of play_games(n) that returns has played exactly n rounds and
\* recorded one outcome per round, once the round had resolved: during a
\* call total_games and the round index grow together, by one and by the
\* round's bet at each record and at no other step, a call starts on the
\* statistics the bot already has, and no counter of the statistics ever
\* goes down, also over a second call on the same bot
RunRecordsEachRoundOnce ==
    /\ [](pc = "done" => i = num_games)
    /\ [][pc = "record" =>
            /\ i' = i + 1
            /\ stats'.total_games = stats.total_games + 1
            /\ stats'.total_bet = stats.total_bet + current_bet
            /\ stats'.wins + stats'.losses + stats'.pushes
                    = stats.wins + stats.losses + stats.pushes + 1]_vars
    /\ [][pc # "record" =>
            /\ stats' = stats
            /\ i' = IF pc \in {"idle", "done"} THEN 0 ELSE i]_vars
    /\ [][\A k \in 1..7 : StatsCounters(stats')[k] >= StatsCounters(stats)[k]]_vars

\* the second call on a bot has returned: the statistics hold the rounds of
\* both calls and the bets of both
SecondRunOnSameBotDone ==
    /\ pc = "done"
    /\ shoe_no = 2
    /\ num_games = 2
    /\ stats.total_games = 4
    /\ stats.total_bet > 4

====
